---- MODULE Spec2Model ----
(***************************************************************************)
(* Model of the staged game-state initialization sequencer of the         *)
(* JesterToolbox plugin (UGameStateInitialization and                     *)
(* FGameStateInitializationEvent), of its manager locator                 *)
(* (UManagerLocatorSubsystem) and of its asset registry                    *)
(* (UAssetsLocatorService).  Each of the three has its own specification   *)
(* (Spec, SpecLocator, SpecAssets) over its own variables; the variables   *)
(* of the other two stay at their idle values.                             *)
(*                                                                         *)
(* Gameplay tags are positive integers: the code only compares tags for   *)
(* equality.  Arrays are sequences, read with the 0-based index of the    *)
(* source through At.                                                      *)
(***************************************************************************)
EXTENDS Integers, Sequences, FiniteSets, TLC

\* ---------------------------------------------------------------- bounds
MaxStages == 3
MaxBinds == 2
\* The most entries the two manager arrays hold together, and the most
\* asset categories, that are explored.
MaxManagers == 3
MaxCategories == 2
\* The most calls of Initialize that are explored.
MaxBuilds == 2

\* ------------------------------------------------------ program constants
INDEX_NONE == -1
nullptr == "nullptr"

\* One more tag than the longest sequence has stages, so that some tag is
\* always unknown to the sequence.
Tags == 1 .. (MaxStages + 1)
\* The receivers a caller can pass: no object, or an object of the game.
Objects == {"Receiver"}
Receivers == {nullptr} \cup Objects
\* "OnStage" is a function the receivers expose, "Missing" a name that no
\* receiver exposes (FindFunction returns null for it).
FunctionNames == {"OnStage", "Missing"}

\* The classes of the manager locator: the two engine bases GetManager tests
\* for, and under each a manager class of the game with a subclass of it.
SuperClass == [AActor |-> "UObject", UActorComponent |-> "UObject",
               ManagerA |-> "AActor", ManagerADerived |-> "ManagerA",
               ManagerB |-> "UActorComponent", ManagerBDerived |-> "ManagerB",
               AssetBase |-> "UObject", AssetDerived |-> "AssetBase"]
UClasses == {"UObject"} \cup DOMAIN SuperClass
\* The actors of the world with their exact classes: two of the same class
\* and one of its subclass.
ActorClass == [ActorA1 |-> "ManagerA", ActorA2 |-> "ManagerA",
               ActorA3 |-> "ManagerADerived"]
Actors == DOMAIN ActorClass
\* The components with their exact classes and owners: two of the same class
\* on different actors, and one of the subclass that shares an owner.
ComponentClass == [CompB1 |-> "ManagerB", CompB2 |-> "ManagerB",
                   CompB3 |-> "ManagerBDerived"]
ComponentOwner == [CompB1 |-> "ActorA1", CompB2 |-> "ActorA2",
                   CompB3 |-> "ActorA1"]
Components == DOMAIN ComponentClass
\* The asset registry: the tags that are looked up, the objects and the
\* classes a category can hold under them, and the levels.  The object of
\* the derived class lets an expected class be an ancestor of the stored one.
AssetTags == {"Asset.A", "Asset.B"}
ClassTags == {"Asset.A"}
LevelTags == {"Asset.A"}
AssetObjectClass == [ObjBase |-> "AssetBase", ObjDerived |-> "AssetDerived"]
AssetObjects == DOMAIN AssetObjectClass
AssetClasses == {"AssetBase", "AssetDerived"}
Levels == {"World"}
\* The classes a caller expects: none, the two asset classes, and a class
\* that no asset has.
ExpectedClasses == {nullptr, "AssetBase", "AssetDerived", "AActor"}

\* What the subsystem has bound to an actor's OnDestroyed: every bind is
\* preceded by RemoveAll(this), so it is one handler or none.
Unbound == "Unbound"

VARIABLES
    OrderedInitializationSteps, \* TArray<FGameplayTag>, fixed after start
    InitializationIndex,        \* int, the cursor
    InitializationEvents,       \* TArray<FGameStateInitializationEvent>
    TickEnabled,                \* component tick state (SetComponentTickEnabled)
    valid,                      \* objects that are IsValid and reachable
    reqs,                       \* history: one record per bind request, by id
    out,                        \* history: what the last call did, in order
    notified,                   \* history: every broadcast so far, in order
    \* the build configuration (both components read it)
    UE_BUILD_SHIPPING,          \* TRUE in a shipping build: checks compiled out
    \* UManagerLocatorSubsystem
    ActorManagers,              \* TArray<AActor*>
    ComponentManagers,          \* TArray<UActorComponent*>
    OnDestroyed,                \* per actor: the subsystem's binding to OnDestroyed
    destroyed,                  \* actors whose OnDestroyed was broadcast
    locOut,                     \* history: the last call, its argument and result
    \* UAssetsLocatorService
    RegisteredAssets,           \* TMap<FString, FAssetCategory>, in iteration order
    RegisteredLevels,           \* TMap<FGameplayTag, TSoftObjectPtr<UWorld>>
    Assets,                     \* TMap<FGameplayTag, UObject*>
    Classes,                    \* TMap<FGameplayTag, TSubclassOf<UObject>>
    bInitialized,               \* bool
    assetOut                    \* history: the calls made and the last result

GameStateVars == <<OrderedInitializationSteps, InitializationIndex,
                   InitializationEvents, TickEnabled, valid, reqs, out,
                   notified>>
LocatorVars == <<ActorManagers, ComponentManagers, OnDestroyed, destroyed, locOut>>
AssetsVars == <<RegisteredAssets, RegisteredLevels, Assets, Classes,
                bInitialized, assetOut>>

vars == <<GameStateVars, UE_BUILD_SHIPPING, LocatorVars, AssetsVars>>

\* --------------------------------------------------------- array helpers
At(arr, i) == arr[i + 1]

Num(arr) == Len(arr)

IsValidIndex(arr, i) == i >= 0 /\ i < Num(arr)

Last(arr) == arr[Len(arr)]

\* TArray::Find: 0-based index of the first element equal to x, INDEX_NONE
\* when there is none.
Find(arr, x) ==
    IF \E k \in 1 .. Len(arr) : arr[k] = x
    THEN (CHOOSE k \in 1 .. Len(arr) :
              arr[k] = x /\ \A j \in 1 .. (k - 1) : arr[j] # x) - 1
    ELSE INDEX_NONE

RemoveAt(arr, i) == SubSeq(arr, 1, i) \o SubSeq(arr, i + 2, Len(arr))

\* ------------------------------------------------------ stage sequences
\* Tags are opaque, so the sequences are taken up to renaming of tags: the
\* first occurrences of the tags appear in the order 1, 2, 3, ...
\* Sequences with repeated tags are included: the code does not reject them.
RECURSIVE SeqsOfLen(_)
SeqsOfLen(n) ==
    IF n = 0 THEN {<<>>}
    ELSE {Append(s, t) : s \in SeqsOfLen(n - 1), t \in Tags}

Canonical(s) ==
    \A k \in 1 .. Len(s) :
        \/ s[k] = 1
        \/ \E j \in 1 .. (k - 1) : s[j] = s[k] - 1

StepSeqs ==
    {s \in UNION {SeqsOfLen(n) : n \in 0 .. MaxStages} : Canonical(s)}


\* ---------------------------------------------------- the machine record
\* The operators below are the methods of the component.  They take and
\* return the component's state as a record m, so that a method called from
\* another one (Execute from TickComponent, BindToInitializationStep from a
\* callable that TickComponent runs) sees the state as it is at that point:
\*   m.Index   InitializationIndex        m.Events  InitializationEvents
\*   m.Tick    TickEnabled                m.reqs, m.out   the histories
Machine ==
    [Index  |-> InitializationIndex,
     Events |-> InitializationEvents,
     Tick   |-> TickEnabled,
     reqs   |-> reqs,
     out    |-> <<>>]

\* The tags a caller binds to: those of the sequence and one that the
\* sequence does not have (all unknown tags behave alike).
Range(arr) == {arr[k] : k \in 1 .. Len(arr)}
BindTags == 1 .. (Cardinality(Range(OrderedInitializationSteps)) + 1)

\* What a callable does when it runs: nothing to the component (who = 0), or,
\* for the callable of bind request `who`, one nested BindToInitializationStep.
\* The nested request passes the receiver of the running callable and a
\* callable that does not bind again.
NoCallback == [who |-> 0, State |-> 1, bIsPostState |-> FALSE]

Callbacks(ids) ==
    {NoCallback} \cup [who : ids, State : BindTags, bIsPostState : BOOLEAN]

\* The requests whose callable can run and bind again in a call made now.
Rebinders(events, room) ==
    IF room < 1 THEN {}
    ELSE {e.id : e \in {ev \in events : ev.Object \in valid
                                          /\ ev.FunctionName = "OnStage"}}

\* FGameStateInitializationEvent(InState, InObject, InFunctionName, bInIsPostState);
\* id is the history's name of the bind request.
FGameStateInitializationEvent(InState, InObject, InFunctionName, bInIsPostState, id) ==
    [State |-> InState, Object |-> InObject, FunctionName |-> InFunctionName,
     bIsPostState |-> bInIsPostState, id |-> id]

\* IsValid(Object) && !Object->IsUnreachable()
IsValid(Object) == Object # nullptr /\ Object \in valid

\* UObject::FindFunction
FindFunction(ObjPtr, FunctionName) == FunctionName = "OnStage"

IsStateAlreadyInitialized(Index, State) ==
    Find(OrderedInitializationSteps, State) < Index

\* Mutant: the step before the index is compared.
IsCurrentState_Previous(Index, State) ==
    /\ IsValidIndex(OrderedInitializationSteps, Index - 1)
    /\ At(OrderedInitializationSteps, Index - 1) = State

IsCurrentState(Index, State) ==
    /\ IsValidIndex(OrderedInitializationSteps, Index)
    /\ At(OrderedInitializationSteps, Index) = State

\* Mutant: the post-state flag is forgotten for the current state.
ExecutesAtBind_IgnoresPost(Index, State, bIsPostState) ==
    IsStateAlreadyInitialized(Index, State) \/ IsCurrentState(Index, State)

\* Mutant: a step that is already done is not looked for.
ExecutesAtBind_CurrentOnly(Index, State, bIsPostState) ==
    IsCurrentState(Index, State) /\ ~bIsPostState

\* Mutant: the new event is classified with the index before the increment.
ExecutesAtBind_StaleIndex(Index, State, bIsPostState) ==
    IsStateAlreadyInitialized(Index - 1, State)
        \/ (IsCurrentState(Index - 1, State) /\ ~bIsPostState)

\* The test of BindToInitializationStep: run the new event now, do not store it.
ExecutesAtBind(Index, State, bIsPostState) ==
    IsStateAlreadyInitialized(Index, State)
        \/ (IsCurrentState(Index, State) /\ ~bIsPostState)

\* Mutant: "<" for "==" in the first test, the pre-state events run one
\* advance late.
TriggersOnAdvance_Late(Index, Event) ==
    LET EventStateIdx == Find(OrderedInitializationSteps, Event.State)
    IN  \/ (EventStateIdx < Index /\ ~Event.bIsPostState)
        \/ (Event.bIsPostState /\ EventStateIdx < Index)

\* Mutant: "<=" for "<" in the second test, the post-state events run when
\* their state is entered.
TriggersOnAdvance_PostOnEntry(Index, Event) ==
    LET EventStateIdx == Find(OrderedInitializationSteps, Event.State)
    IN  \/ (EventStateIdx = Index /\ ~Event.bIsPostState)
        \/ (Event.bIsPostState /\ EventStateIdx <= Index)

\* The two tests of the loop of TickComponent on a non-terminal advance.
TriggersOnAdvance(Index, Event) ==
    LET EventStateIdx == Find(OrderedInitializationSteps, Event.State)
    IN  \/ (EventStateIdx = Index /\ ~Event.bIsPostState)
        \/ (Event.bIsPostState /\ EventStateIdx < Index)

\* Mutant: the terminal loop leaves the post-state events out.
TriggersOnLast_PreOnly(Event) ==
    Event.State = Last(OrderedInitializationSteps) /\ ~Event.bIsPostState

\* The test of the loop of TickComponent on the terminal advance.
TriggersOnLast(Event) == Event.State = Last(OrderedInitializationSteps)

RECURSIVE BindToInitializationStep(_, _, _, _, _, _)

\* UObject::ProcessEvent on the callable of bind request id.
ProcessEvent(m, ObjPtr, id, cb) ==
    LET m1 == [m EXCEPT !.reqs[id].calls = @ + 1,
                        !.out = Append(@, [kind |-> "Call", id |-> id])]
    IN  IF cb.who = id
        THEN BindToInitializationStep(m1, cb.State, ObjPtr, "OnStage",
                                      cb.bIsPostState, NoCallback)
        ELSE m1

CallFunctionByName(m, ObjPtr, FunctionName, id, cb) ==
    IF ObjPtr # nullptr
    THEN IF FindFunction(ObjPtr, FunctionName)
         THEN ProcessEvent(m, ObjPtr, id, cb)
         ELSE m
    ELSE m

\* Mutant: the callable is called without the validity test.
Execute_Unchecked(m, Event, cb) ==
    LET m1 == [m EXCEPT !.reqs[Event.id].attempts = @ + 1,
                        !.reqs[Event.id].firedAt = m.Index,
                        !.reqs[Event.id].wasValid = IsValid(Event.Object),
                        !.out = Append(@, [kind |-> "Execute", id |-> Event.id])]
    IN  CallFunctionByName(m1, Event.Object, Event.FunctionName, Event.id, cb)

\* FGameStateInitializationEvent::Execute
Execute(m, Event, cb) ==
    LET m1 == [m EXCEPT !.reqs[Event.id].attempts = @ + 1,
                        !.reqs[Event.id].firedAt = m.Index,
                        !.reqs[Event.id].wasValid = IsValid(Event.Object),
                        !.out = Append(@, [kind |-> "Execute", id |-> Event.id])]
    IN  IF IsValid(Event.Object)
        THEN CallFunctionByName(m1, Event.Object, Event.FunctionName, Event.id, cb)
        ELSE m1

BindToInitializationStep(m, State, Object, FunctionName, bIsPostState, cb) ==
    LET id == Len(m.reqs) + 1
        NewEvent == FGameStateInitializationEvent(State, Object, FunctionName,
                                                  bIsPostState, id)
        m1 == [m EXCEPT !.reqs = Append(@,
                   [State |-> State, Object |-> Object,
                    FunctionName |-> FunctionName, bIsPostState |-> bIsPostState,
                    boundAt |-> m.Index, atBind |-> FALSE, stored |-> FALSE,
                    attempts |-> 0, calls |-> 0, firedAt |-> INDEX_NONE,
                    wasValid |-> FALSE])]
    IN  IF ExecutesAtBind(m.Index, State, bIsPostState)
        THEN LET m2 == Execute(m1, NewEvent, cb)
             IN  [m2 EXCEPT !.reqs[id].atBind = TRUE]
        ELSE [m1 EXCEPT !.Events = Append(@, NewEvent),
                        !.reqs[id].stored = TRUE]

\* The first loop of the non-terminal branch: i runs over the indices of
\* InitializationEvents, whose length is read again at each iteration.
RECURSIVE TriggerLoop(_, _, _, _)
TriggerLoop(m, i, TriggeredEvents, cb) ==
    IF ~(i < Num(m.Events))
    THEN [m |-> m, TriggeredEvents |-> TriggeredEvents]
    ELSE LET Event == At(m.Events, i)
         IN  IF TriggersOnAdvance(m.Index, Event)
             THEN TriggerLoop(Execute(m, Event, cb), i + 1,
                              Append(TriggeredEvents, i), cb)
             ELSE TriggerLoop(m, i + 1, TriggeredEvents, cb)

RECURSIVE RemoveLoop(_, _, _)

\* Mutant: the triggered events are not removed.
RemoveLoop_Keeps(Events, TriggeredEvents, i) == Events

\* The second loop: RemoveAt of the triggered indices, from the last one down.
RemoveLoop(Events, TriggeredEvents, i) ==
    IF ~(i >= 0)
    THEN Events
    ELSE RemoveLoop(RemoveAt(Events, At(TriggeredEvents, i)), TriggeredEvents, i - 1)

RECURSIVE LastLoop(_, _, _)

\* Mutant: the terminal branch does not run the events of the last step.
LastLoop_Skips(m, i, cb) == m

\* The loop of the terminal branch, over the events of the array.
LastLoop(m, i, cb) ==
    IF ~(i < Num(m.Events))
    THEN m
    ELSE LET Event == At(m.Events, i)
         IN  IF TriggersOnLast(Event)
             THEN LastLoop(Execute(m, Event, cb), i + 1, cb)
             ELSE LastLoop(m, i + 1, cb)

\* Mutant: the notification is broadcast before the events are run.
Advance_NotifiesFirst(m, cb) ==
    LET m1 == [m EXCEPT !.Index = @ + 1]
    IN  IF IsValidIndex(OrderedInitializationSteps, m1.Index)
        THEN LET m2 == [m1 EXCEPT !.out = Append(@,
                           [kind |-> "Changed",
                            tag |-> At(OrderedInitializationSteps, m1.Index)])]
                 r  == TriggerLoop(m2, 0, <<>>, cb)
             IN  [r.m EXCEPT !.Events =
                     RemoveLoop(@, r.TriggeredEvents, Num(r.TriggeredEvents) - 1)]
        ELSE LET m2 == [m1 EXCEPT !.out = Append(@, [kind |-> "FullyInitialized"]),
                                  !.Tick = FALSE]
             IN  LastLoop(m2, 0, cb)

\* Mutant: the terminal advance broadcasts the change to the last step too.
Advance_ChangedAtEnd(m, cb) ==
    LET m1 == [m EXCEPT !.Index = @ + 1]
    IN  IF IsValidIndex(OrderedInitializationSteps, m1.Index)
        THEN LET r  == TriggerLoop(m1, 0, <<>>, cb)
                 m2 == [r.m EXCEPT !.Events =
                           RemoveLoop(@, r.TriggeredEvents,
                                      Num(r.TriggeredEvents) - 1)]
             IN  [m2 EXCEPT !.out = Append(@,
                     [kind |-> "Changed",
                      tag |-> At(OrderedInitializationSteps, m2.Index)])]
        ELSE LET m2 == LastLoop(m1, 0, cb)
             IN  [m2 EXCEPT !.out = @ \o
                     <<[kind |-> "Changed", tag |-> Last(OrderedInitializationSteps)],
                       [kind |-> "FullyInitialized"]>>,
                            !.Tick = FALSE]

\* Mutant: the broadcast carries the step that was left.
Advance_AnnouncesLeft(m, cb) ==
    LET m1 == [m EXCEPT !.Index = @ + 1]
    IN  IF IsValidIndex(OrderedInitializationSteps, m1.Index)
        THEN LET r  == TriggerLoop(m1, 0, <<>>, cb)
                 m2 == [r.m EXCEPT !.Events =
                           RemoveLoop(@, r.TriggeredEvents,
                                      Num(r.TriggeredEvents) - 1)]
             IN  [m2 EXCEPT !.out = Append(@,
                     [kind |-> "Changed",
                      tag |-> At(OrderedInitializationSteps, m2.Index - 1)])]
        ELSE LET m2 == LastLoop(m1, 0, cb)
             IN  [m2 EXCEPT !.out = Append(@, [kind |-> "FullyInitialized"]),
                            !.Tick = FALSE]

\* TickComponent, once the current step is ready to advance: the increment
\* of the index and what follows it.
Advance(m, cb) ==
    LET m1 == [m EXCEPT !.Index = @ + 1]
    IN  IF IsValidIndex(OrderedInitializationSteps, m1.Index)
        THEN LET r  == TriggerLoop(m1, 0, <<>>, cb)
                 m2 == [r.m EXCEPT !.Events =
                           RemoveLoop(@, r.TriggeredEvents,
                                      Num(r.TriggeredEvents) - 1)]
             IN  [m2 EXCEPT !.out = Append(@,
                     [kind |-> "Changed",
                      tag |-> At(OrderedInitializationSteps, m2.Index)])]
        ELSE LET m2 == LastLoop(m1, 0, cb)
             IN  [m2 EXCEPT !.out = Append(@, [kind |-> "FullyInitialized"]),
                            !.Tick = FALSE]

\* Mutant: "while" for "if", the steps advance as long as they are ready.
TickComponent_Greedy(m, bReady, cb) ==
    IF m.Index >= Num(OrderedInitializationSteps)
    THEN m
    ELSE IF ~bReady
    THEN m
    ELSE LET m1 == Advance(m, cb)
         IN  IF m1.Index >= Num(OrderedInitializationSteps)
             THEN m1
             ELSE Advance(m1, cb)

\* Mutant: the answer of IsStepReadyToAdvance is not looked at.
TickComponent_IgnoresReady(m, bReady, cb) ==
    IF m.Index >= Num(OrderedInitializationSteps)
    THEN m
    ELSE Advance(m, cb)

\* Mutant: ">" for ">=" in the early return.
TickComponent_StrictGuard(m, bReady, cb) ==
    IF m.Index > Num(OrderedInitializationSteps)
    THEN m
    ELSE IF ~bReady
    THEN m
    ELSE Advance(m, cb)

\* Mutant: the early return of a completed sequence is missing.
TickComponent_Unguarded(m, bReady, cb) ==
    IF ~bReady THEN m ELSE Advance(m, cb)

\* TickComponent; bReady is what IsStepReadyToAdvance returns for the
\* current step.
TickComponent(m, bReady, cb) ==
    IF m.Index >= Num(OrderedInitializationSteps)
    THEN m
    ELSE IF ~bReady
    THEN m
    ELSE Advance(m, cb)

\* ------------------------------------------- the components at rest
\* The values the variables of a component keep in the specifications of
\* the other components.
NoCall == [op |-> "None"]
EmptyMap == [Tag \in {} |-> nullptr]

GameStateIdle ==
    /\ OrderedInitializationSteps = <<>>
    /\ InitializationIndex = 0
    /\ InitializationEvents = <<>>
    /\ TickEnabled = TRUE
    /\ valid = Objects
    /\ reqs = <<>>
    /\ out = <<>>
    /\ notified = <<>>

LocatorIdle ==
    /\ ActorManagers = <<>>
    /\ ComponentManagers = <<>>
    /\ OnDestroyed = [Actor \in Actors |-> Unbound]
    /\ destroyed = {}
    /\ locOut = NoCall

AssetsIdle ==
    /\ RegisteredAssets = <<>>
    /\ RegisteredLevels = EmptyMap
    /\ Assets = EmptyMap
    /\ Classes = EmptyMap
    /\ bInitialized = FALSE
    /\ assetOut = [builds |-> 0, last |-> NoCall]

\* ---------------------------------------------------------------- actions
Commit(m) ==
    /\ Len(m.reqs) <= MaxBinds
    /\ InitializationIndex' = m.Index
    /\ InitializationEvents' = m.Events
    /\ TickEnabled' = m.Tick
    /\ reqs' = m.reqs
    /\ out' = m.out
    /\ notified' = notified \o
           SelectSeq(m.out, LAMBDA o : o.kind \in {"Changed", "FullyInitialized"})

\* The state after construction and BeginPlay.
Init ==
    /\ OrderedInitializationSteps \in StepSeqs
    /\ InitializationIndex = 0
    /\ InitializationEvents = <<>>
    /\ TickEnabled = TRUE
    /\ valid = Objects
    /\ reqs = <<>>
    /\ out = <<>>
    /\ notified = <<>>
    /\ UE_BUILD_SHIPPING = FALSE
    /\ LocatorIdle
    /\ AssetsIdle

\* One frame: the engine (or any caller) calls TickComponent.
Tick ==
    /\ \E bReady \in BOOLEAN,
          cb \in Callbacks(Rebinders(Range(InitializationEvents),
                                     MaxBinds - Len(reqs))) :
           Commit(TickComponent(Machine, bReady, cb))
    /\ UNCHANGED <<OrderedInitializationSteps, valid, UE_BUILD_SHIPPING,
                   LocatorVars, AssetsVars>>

\* A caller binds a callable to a step, through
\* UJesterFunctionLibrary::BindToGameStateInitializationStep on the component
\* of the game state or on the component itself.
Bind ==
    /\ Len(reqs) < MaxBinds
    /\ \E State \in BindTags, Object \in Receivers, FunctionName \in FunctionNames,
          bIsPostState \in BOOLEAN :
         \E cb \in Callbacks(Rebinders({[id |-> Len(reqs) + 1, Object |-> Object,
                                         FunctionName |-> FunctionName]},
                                       MaxBinds - Len(reqs) - 1)) :
           Commit(BindToInitializationStep(Machine, State, Object,
                                           FunctionName, bIsPostState, cb))
    /\ UNCHANGED <<OrderedInitializationSteps, valid, UE_BUILD_SHIPPING,
                   LocatorVars, AssetsVars>>

\* The engine destroys a receiver: it is no longer valid from then on.
Destroy ==
    /\ \E Object \in valid : valid' = valid \ {Object}
    /\ out' = <<>>
    /\ UNCHANGED <<OrderedInitializationSteps, InitializationIndex,
                   InitializationEvents, TickEnabled, reqs, notified,
                   UE_BUILD_SHIPPING, LocatorVars, AssetsVars>>

Next == Tick \/ Bind \/ Destroy

Spec == Init /\ [][Next]_vars

\* A frame in which the sequence is not complete and IsStepReadyToAdvance
\* answers true for the current step: TickComponent passes both early
\* returns and increments the index.  Of the steps of Next these are the
\* only ones that change the index, so the action is written on the index.
ReadyTick ==
    /\ InitializationIndex < Num(OrderedInitializationSteps)
    /\ InitializationIndex' = InitializationIndex + 1

\* The component ticks every frame while its tick is enabled, and the step
\* that is current does not stay unready for ever: a ready frame comes.
SpecFair == Spec /\ WF_InitializationIndex(ReadyTick)

\* ============================================= UManagerLocatorSubsystem
\* UClass::IsChildOf: the class itself or one of its ancestors.
RECURSIVE IsChildOf(_, _)
IsChildOf(Class, Base) ==
    \/ Class = Base
    \/ Class \in DOMAIN SuperClass /\ IsChildOf(SuperClass[Class], Base)

\* UObject::GetClass and UActorComponent::GetOwner of the objects above.
GetClass(Manager) ==
    IF Manager \in Actors THEN ActorClass[Manager]
    ELSE IF Manager \in Components THEN ComponentClass[Manager]
    ELSE AssetObjectClass[Manager]
GetOwner(Manager) == ComponentOwner[Manager]

\* for (Existing : arr) if (Existing->GetClass() == Manager->GetClass())
HasClass(arr, Manager) ==
    \E i \in 1 .. Len(arr) : GetClass(arr[i]) = GetClass(Manager)

\* TArray::Remove: every element equal to Item goes, the order of the rest
\* is kept; it returns the number of elements removed.
Remove(arr, Item) == SelectSeq(arr, LAMBDA e : e # Item)
RemoveCount(arr, Item) == Len(arr) - Len(Remove(arr, Item))

\* The subsystem as a value: its two arrays, its bindings to the OnDestroyed
\* delegates of the actors, and what the call in progress logged or removed.
Locator ==
    [ActorManagers |-> ActorManagers, ComponentManagers |-> ComponentManagers,
     OnDestroyed |-> OnDestroyed, log |-> "", removed |-> 0]

RegisterActorManager(L, Manager) ==
    IF ~UE_BUILD_SHIPPING /\ HasClass(L.ActorManagers, Manager)
    THEN [L EXCEPT !.log = "already registered"]
    ELSE [L EXCEPT !.ActorManagers = Append(@, Manager),
                   !.OnDestroyed[Manager] = "UnregisterActorManager"]

RegisterComponentManager(L, Manager) ==
    IF ~UE_BUILD_SHIPPING /\ HasClass(L.ComponentManagers, Manager)
    THEN [L EXCEPT !.log = "already registered"]
    ELSE [L EXCEPT !.ComponentManagers = Append(@, Manager),
                   !.OnDestroyed[GetOwner(Manager)] =
                       "HandleComponentManagerOwnerDestroyed"]

\* RemoveDynamic: the binding goes if it is the one named.
RemoveDynamic(Bound, Handler) == IF Bound = Handler THEN Unbound ELSE Bound

\* Mutant: every entry of the instance's class is removed.
UnregisterActorManager_ByClass(L, Manager) ==
    IF Manager = nullptr
    THEN L
    ELSE [L EXCEPT !.ActorManagers =
                       SelectSeq(@, LAMBDA e : GetClass(e) # GetClass(Manager)),
                   !.removed = RemoveCount(L.ActorManagers, Manager),
                   !.OnDestroyed[Manager] =
                       RemoveDynamic(@, "UnregisterActorManager")]

UnregisterActorManager(L, Manager) ==
    IF Manager = nullptr
    THEN L
    ELSE [L EXCEPT !.ActorManagers = Remove(@, Manager),
                   !.removed = RemoveCount(L.ActorManagers, Manager),
                   !.OnDestroyed[Manager] =
                       RemoveDynamic(@, "UnregisterActorManager")]

UnregisterComponentManager(L, Manager) ==
    IF Manager = nullptr
    THEN L
    ELSE [L EXCEPT !.ComponentManagers = Remove(@, Manager),
                   !.removed = RemoveCount(L.ComponentManagers, Manager),
                   !.OnDestroyed[GetOwner(Manager)] =
                       RemoveDynamic(@, "HandleComponentManagerOwnerDestroyed")]

\* for (Manager : arr) if (Manager->GetClass()->IsChildOf(ManagerClass))
\*     return Manager;
RECURSIVE FirstChildOf(_, _, _)
FirstChildOf(arr, i, ManagerClass) ==
    IF i > Len(arr)
    THEN nullptr
    ELSE IF IsChildOf(GetClass(arr[i]), ManagerClass)
    THEN arr[i]
    ELSE FirstChildOf(arr, i + 1, ManagerClass)

\* Mutant: only an entry of exactly the class asked for is returned.
GetManager_Exact(L, ManagerClass) ==
    LET Exact(arr) == IF \E i \in 1 .. Len(arr) : GetClass(arr[i]) = ManagerClass
                      THEN arr[CHOOSE i \in 1 .. Len(arr) :
                                   /\ GetClass(arr[i]) = ManagerClass
                                   /\ \A j \in 1 .. (i - 1) :
                                          GetClass(arr[j]) # ManagerClass]
                      ELSE nullptr
    IN  IF ManagerClass = nullptr
        THEN nullptr
        ELSE IF IsChildOf(ManagerClass, "AActor")
        THEN Exact(L.ActorManagers)
        ELSE IF IsChildOf(ManagerClass, "UActorComponent")
        THEN Exact(L.ComponentManagers)
        ELSE nullptr

\* The value GetManager returns; it logs an error when it found nothing
\* for a class that is not null.
GetManager(L, ManagerClass) ==
    IF ManagerClass = nullptr
    THEN nullptr
    ELSE IF IsChildOf(ManagerClass, "AActor")
    THEN FirstChildOf(L.ActorManagers, 1, ManagerClass)
    ELSE IF IsChildOf(ManagerClass, "UActorComponent")
    THEN FirstChildOf(L.ComponentManagers, 1, ManagerClass)
    ELSE nullptr

\* The handler collects the components of the owner in a local array and
\* returns: nothing is removed from ComponentManagers.
HandleComponentManagerOwnerDestroyed(L, Owner) ==
    LET ComponentsToRemove ==
            SelectSeq(L.ComponentManagers, LAMBDA Manager : GetOwner(Manager) = Owner)
    IN  L

\* AActor::OnDestroyed.Broadcast(Actor): the handler the subsystem has bound
\* to this actor runs.
Broadcast(L, Actor) ==
    IF L.OnDestroyed[Actor] = "UnregisterActorManager"
    THEN UnregisterActorManager(L, Actor)
    ELSE IF L.OnDestroyed[Actor] = "HandleComponentManagerOwnerDestroyed"
    THEN HandleComponentManagerOwnerDestroyed(L, Actor)
    ELSE L

\* -------------------------------------------------- actions of the locator
\* The call leaves the subsystem as L; locOut keeps what it was and gave.
LocatorCommit(L, op, arg, ret, log) ==
    /\ Len(L.ActorManagers) + Len(L.ComponentManagers) <= MaxManagers
    /\ ActorManagers' = L.ActorManagers
    /\ ComponentManagers' = L.ComponentManagers
    /\ locOut' = [op |-> op, arg |-> arg, ret |-> ret, log |-> log,
                  removed |-> L.removed]
    /\ UNCHANGED <<GameStateVars, UE_BUILD_SHIPPING, AssetsVars>>

\* The subsystem after its construction, in either build, with the objects
\* of the world alive and none registered.
InitLocator ==
    /\ UE_BUILD_SHIPPING \in BOOLEAN
    /\ LocatorIdle
    /\ GameStateIdle
    /\ AssetsIdle

\* AManagerActor::BeginPlay, or any caller, registers a living actor.
RegisterActor ==
    \E Manager \in Actors \ destroyed :
        LET L == RegisterActorManager(Locator, Manager)
        IN  /\ LocatorCommit(L, "RegisterActorManager", Manager, nullptr, L.log)
            /\ OnDestroyed' = L.OnDestroyed
            /\ UNCHANGED destroyed

\* UManagerActorComponent::BeginPlay, or any caller, registers a component
\* of a living actor.
RegisterComponent ==
    \E Manager \in Components :
        LET L == RegisterComponentManager(Locator, Manager)
        IN  /\ GetOwner(Manager) \notin destroyed
            /\ LocatorCommit(L, "RegisterComponentManager", Manager, nullptr, L.log)
            /\ OnDestroyed' = L.OnDestroyed
            /\ UNCHANGED destroyed

\* AManagerActor::EndPlay, or any caller, unregisters an actor or null.
UnregisterActor ==
    \E Manager \in {nullptr} \cup (Actors \ destroyed) :
        LET L == UnregisterActorManager(Locator, Manager)
        IN  /\ LocatorCommit(L, "UnregisterActorManager", Manager, nullptr, L.log)
            /\ OnDestroyed' = L.OnDestroyed
            /\ UNCHANGED destroyed

\* UManagerActorComponent::EndPlay, or any caller, unregisters a component
\* or null.
UnregisterComponent ==
    \E Manager \in {nullptr} \cup {C \in Components : GetOwner(C) \notin destroyed} :
        LET L == UnregisterComponentManager(Locator, Manager)
        IN  /\ LocatorCommit(L, "UnregisterComponentManager", Manager, nullptr, L.log)
            /\ OnDestroyed' = L.OnDestroyed
            /\ UNCHANGED destroyed

\* A caller asks for the manager of a class, or of no class.
Resolve ==
    \E ManagerClass \in {nullptr} \cup UClasses :
        LET ret == GetManager(Locator, ManagerClass)
        IN  /\ LocatorCommit(Locator, "GetManager", ManagerClass, ret,
                             IF ManagerClass # nullptr /\ ret = nullptr
                             THEN "not found" ELSE "")
            /\ UNCHANGED <<OnDestroyed, destroyed>>

\* The engine destroys an actor, and with it its components: OnDestroyed is
\* broadcast, and the delegate goes with the actor.
DestroyActor ==
    \E Actor \in Actors \ destroyed :
        LET L == Broadcast(Locator, Actor)
        IN  /\ LocatorCommit(L, "OnDestroyed", Actor, nullptr, L.log)
            /\ OnDestroyed' = [L.OnDestroyed EXCEPT ![Actor] = Unbound]
            /\ destroyed' = destroyed \cup {Actor}

NextLocator ==
    \/ RegisterActor
    \/ RegisterComponent
    \/ UnregisterActor
    \/ UnregisterComponent
    \/ Resolve
    \/ DestroyActor

SpecLocator == InitLocator /\ [][NextLocator]_vars

\* ================================================= UAssetsLocatorService
\* The maps with keys in K and values in V (a TMap has each key once).
PartialMaps(K, V) == UNION {[D -> V] : D \in SUBSET K}
\* FAssetCategory, and the category maps of up to MaxCategories categories
\* in the order the TMap iterates them.
FAssetCategory ==
    [Assets : PartialMaps(AssetTags, AssetObjects),
     Classes : PartialMaps(ClassTags, AssetClasses)]
CategorySeqs == UNION {[1 .. n -> FAssetCategory] : n \in 0 .. MaxCategories}
LevelMaps == PartialMaps(LevelTags, Levels)

\* The service as a value: the members Initialize writes.
Service == [Assets |-> Assets, Classes |-> Classes, bInitialized |-> bInitialized]

\* for (Pair : Source) Map.Add(Pair.Key, Pair.Value): TMap::Add replaces the
\* value of a key that is there.
AddPairs(Map, Source) ==
    [Tag \in DOMAIN Map \cup DOMAIN Source |->
        IF Tag \in DOMAIN Source THEN Source[Tag] ELSE Map[Tag]]

\* Mutant: only the first category is read.
Flatten_FirstOnly(S, i) ==
    IF RegisteredAssets = <<>>
    THEN S
    ELSE [S EXCEPT !.Assets = RegisteredAssets[1].Assets,
                   !.Classes = RegisteredAssets[1].Classes]

\* The loop over RegisteredAssets, from category i on.
RECURSIVE Flatten(_, _)
Flatten(S, i) ==
    IF i > Len(RegisteredAssets)
    THEN S
    ELSE Flatten([S EXCEPT !.Assets = AddPairs(@, RegisteredAssets[i].Assets),
                           !.Classes = AddPairs(@, RegisteredAssets[i].Classes)],
                 i + 1)

\* Mutant: the guard is the wrong way round.
Initialize_GuardInverted(S) ==
    IF ~S.bInitialized
    THEN S
    ELSE [Flatten(S, 1) EXCEPT !.bInitialized = TRUE]

Initialize(S) ==
    IF S.bInitialized
    THEN S
    ELSE [Flatten(S, 1) EXCEPT !.bInitialized = TRUE]

\* checkf(Condition, ...) followed by "return Value": where the condition
\* holds the value is returned; where it fails the program stops in a build
\* with checks, and in a shipping build, where checkf is compiled out, the
\* code below it runs unchecked.
checkf(Condition, Value) ==
    IF Condition
    THEN [kind |-> "Returned", value |-> Value]
    ELSE IF UE_BUILD_SHIPPING
    THEN [kind |-> "Unchecked", value |-> Value]
    ELSE [kind |-> "Fatal", value |-> nullptr]

\* Mutant: the class of the object has to be the expected class itself.
GetAsset_ExactClass(S, Tag, ExpectedClass) ==
    IF Tag \in DOMAIN S.Assets
    THEN checkf(ExpectedClass = nullptr
                    \/ GetClass(S.Assets[Tag]) = ExpectedClass,
                S.Assets[Tag])
    ELSE checkf(FALSE, nullptr)

GetAsset(S, Tag, ExpectedClass) ==
    IF Tag \in DOMAIN S.Assets
    THEN checkf(ExpectedClass = nullptr
                    \/ IsChildOf(GetClass(S.Assets[Tag]), ExpectedClass),
                S.Assets[Tag])
    ELSE checkf(FALSE, nullptr)

GetAssetClass(S, Tag, ExpectedClass) ==
    IF Tag \in DOMAIN S.Classes
    THEN checkf(ExpectedClass = nullptr
                    \/ IsChildOf(S.Classes[Tag], ExpectedClass),
                S.Classes[Tag])
    ELSE checkf(FALSE, nullptr)

\* if (!ensureMsgf(Condition, ...)) return nullptr: where the condition
\* fails the program goes on and a null reference is returned, with a report
\* in a build with ensures and silently in a shipping build.
ensureMsgf(Condition, Value) ==
    IF Condition
    THEN [kind |-> "Returned", value |-> Value]
    ELSE IF UE_BUILD_SHIPPING
    THEN [kind |-> "Returned", value |-> nullptr]
    ELSE [kind |-> "Warned", value |-> nullptr]

\* Mutant: the levels are served only after Initialize.
GetLevel_NeedsBuild(S, Tag) ==
    IF S.bInitialized /\ Tag \in DOMAIN RegisteredLevels
    THEN ensureMsgf(TRUE, RegisteredLevels[Tag])
    ELSE ensureMsgf(FALSE, nullptr)

GetLevel(S, Tag) ==
    IF Tag \in DOMAIN RegisteredLevels
    THEN ensureMsgf(TRUE, RegisteredLevels[Tag])
    ELSE ensureMsgf(FALSE, nullptr)

\* -------------------------------------------------- actions of the service
\* The program stopped in a failed check: no call follows.
Running == assetOut.last.kind # "Fatal"

\* A call that reads the service: assetOut keeps what was asked and given.
Answer(op, Tag, ExpectedClass, result) ==
    /\ Running
    /\ assetOut' = [assetOut EXCEPT !.last =
                        [op |-> op, Tag |-> Tag, ExpectedClass |-> ExpectedClass,
                         kind |-> result.kind, value |-> result.value]]
    /\ UNCHANGED <<RegisteredAssets, RegisteredLevels, Assets, Classes,
                   bInitialized>>
    /\ UNCHANGED <<GameStateVars, UE_BUILD_SHIPPING, LocatorVars>>

\* The service after NewObject (members zeroed, maps empty) with the
\* categories and levels of its class defaults, in either build.
InitAssets ==
    /\ UE_BUILD_SHIPPING \in BOOLEAN
    /\ RegisteredAssets \in CategorySeqs
    /\ RegisteredLevels \in LevelMaps
    /\ Assets = EmptyMap
    /\ Classes = EmptyMap
    /\ bInitialized = FALSE
    /\ assetOut = [builds |-> 0,
                   last |-> [op |-> "None", Tag |-> nullptr,
                             ExpectedClass |-> nullptr, kind |-> "Returned",
                             value |-> nullptr]]
    /\ GameStateIdle
    /\ LocatorIdle

\* UJesterAssetSubsystem, or any caller, calls Initialize.
Build ==
    /\ Running
    /\ assetOut.builds < MaxBuilds
    /\ LET S == Initialize(Service)
       IN  /\ Assets' = S.Assets
           /\ Classes' = S.Classes
           /\ bInitialized' = S.bInitialized
    /\ assetOut' = [builds |-> assetOut.builds + 1,
                    last |-> [op |-> "Initialize", Tag |-> nullptr,
                              ExpectedClass |-> nullptr, kind |-> "Returned",
                              value |-> nullptr]]
    /\ UNCHANGED <<RegisteredAssets, RegisteredLevels>>
    /\ UNCHANGED <<GameStateVars, UE_BUILD_SHIPPING, LocatorVars>>

ResolveObject ==
    \E Tag \in AssetTags, ExpectedClass \in ExpectedClasses :
        Answer("GetAsset", Tag, ExpectedClass,
               GetAsset(Service, Tag, ExpectedClass))

ResolveType ==
    \E Tag \in AssetTags, ExpectedClass \in ExpectedClasses :
        Answer("GetAssetClass", Tag, ExpectedClass,
               GetAssetClass(Service, Tag, ExpectedClass))

ResolveLevelRef ==
    \E Tag \in AssetTags :
        Answer("GetLevel", Tag, nullptr, GetLevel(Service, Tag))

NextAssets == Build \/ ResolveObject \/ ResolveType \/ ResolveLevelRef

SpecAssets == InitAssets /\ [][NextAssets]_vars

\* ------------------------------------------------- vocabulary of claims
N == Len(OrderedInitializationSteps)

Ids == 1 .. Len(reqs)

\* index(S) of a stage of the sequence.
IndexOf(State) == Find(OrderedInitializationSteps, State)

IsStage(State) == State \in Range(OrderedInitializationSteps)

\* The callable of the request exists on its receiver.
HasCallable(r) == FindFunction(r.Object, r.FunctionName)

\* Position in out of the entry that says that Execute was called on id, 0
\* when there is none; of the notification of the call, 0 when none.
ExecutePos(id) ==
    IF \E k \in 1 .. Len(out) : out[k] = [kind |-> "Execute", id |-> id]
    THEN CHOOSE k \in 1 .. Len(out) : out[k] = [kind |-> "Execute", id |-> id]
    ELSE 0

IsNotification(o) == o.kind \in {"Changed", "FullyInitialized"}

NotificationPos ==
    IF \E k \in 1 .. Len(out) : IsNotification(out[k])
    THEN CHOOSE k \in 1 .. Len(out) : IsNotification(out[k])
    ELSE 0

PendingIds == {InitializationEvents[k].id : k \in 1 .. Len(InitializationEvents)}

TypeOK ==
    /\ InitializationIndex \in 0 .. MaxStages
    /\ Len(reqs) <= MaxBinds
    /\ \A id \in PendingIds : id \in Ids

\* ----------------------------------------------------------------- C1
\* The index after k consecutive calls whose step is ready, k = 1, 2, 3.
C1_AfterReadyTicks(k) ==
    LET m1 == TickComponent(Machine, TRUE, NoCallback)
        m2 == TickComponent(m1, TRUE, NoCallback)
        m3 == TickComponent(m2, TRUE, NoCallback)
    IN  IF k = 1 THEN m1.Index ELSE IF k = 2 THEN m2.Index ELSE m3.Index

C1_Min(a, b) == IF a < b THEN a ELSE b

\* C1: one TickComponent call raises the index by at most 1, whatever the
\* readiness answer and whatever is pending; with an answer that is always
\* true, consecutive calls move the index c -> c+1 -> c+2 -> c+3 (stopping at
\* N), so a sequence of 3 stages takes exactly three calls from 0 to 3.
C1_OnePerTick ==
    /\ [](/\ \A bReady \in BOOLEAN :
               \A cb \in Callbacks(Rebinders(Range(InitializationEvents), 1)) :
                 LET m == TickComponent(Machine, bReady, cb)
                 IN  /\ m.Index \in {InitializationIndex, InitializationIndex + 1}
                     /\ ~bReady => m.Index = InitializationIndex
          /\ \A k \in 1 .. 3 :
               C1_AfterReadyTicks(k) = C1_Min(InitializationIndex + k, N))
    /\ [][InitializationIndex' \in {InitializationIndex, InitializationIndex + 1}]_vars

C1_Witness ==
    /\ N = 3
    /\ InitializationIndex = 3
    /\ Len(reqs) = 0

\* ----------------------------------------------------------------- C2
\* The requests of the claim.
C2_PreRequest(r) ==
    /\ ~r.bIsPostState
    /\ IsStage(r.State)
    /\ r.boundAt < IndexOf(r.State)

\* C2: a request for stage S with bIsPostState = FALSE, made while the index
\* was below index(S), has not been run while the index is below index(S);
\* from the TickComponent call that moves the index to index(S) on it has
\* been run once, by that call (not by a bind, at index index(S)), and its
\* callable was called if the receiver was valid at that moment.
C2_PreStageTiming ==
    \A id \in Ids :
        LET r == reqs[id]
        IN  C2_PreRequest(r) =>
              /\ InitializationIndex < IndexOf(r.State) =>
                    /\ r.attempts = 0
                    /\ r.calls = 0
                    /\ id \in PendingIds
              /\ InitializationIndex >= IndexOf(r.State) =>
                    /\ r.attempts = 1
                    /\ ~r.atBind
                    /\ r.firedAt = IndexOf(r.State)
                    /\ (r.wasValid /\ HasCallable(r)) => r.calls = 1
                    /\ id \notin PendingIds
              /\ (InitializationIndex = IndexOf(r.State) /\ NotificationPos > 0) =>
                    ExecutePos(id) > 0

C2_Witness ==
    \E id \in Ids :
        /\ C2_PreRequest(reqs[id])
        /\ reqs[id].calls = 1
        /\ reqs[id].Object \in valid
        /\ InitializationIndex > IndexOf(reqs[id].State)

\* ----------------------------------------------------------------- C3
\* The requests of the claim.
C3_PostRequest(r) ==
    /\ r.bIsPostState
    /\ IsStage(r.State)
    /\ r.boundAt <= IndexOf(r.State)

\* C3: a request for stage S with bIsPostState = TRUE, made while the index
\* was at or below index(S), is not run while the index is at or below
\* index(S); it is run once, by the TickComponent call that moves the index
\* from index(S) to index(S) + 1, the terminal call included.
C3_PostStageTiming ==
    \A id \in Ids :
        LET r == reqs[id]
        IN  C3_PostRequest(r) =>
              /\ InitializationIndex <= IndexOf(r.State) =>
                    /\ r.attempts = 0
                    /\ r.calls = 0
                    /\ id \in PendingIds
              /\ InitializationIndex > IndexOf(r.State) =>
                    /\ r.attempts = 1
                    /\ ~r.atBind
                    /\ r.firedAt = IndexOf(r.State) + 1
                    /\ (r.wasValid /\ HasCallable(r)) => r.calls = 1
              /\ (InitializationIndex = IndexOf(r.State) + 1 /\ NotificationPos > 0) =>
                    ExecutePos(id) > 0

\* The terminal case: a post-state request for the last stage, run by the
\* call that completes the sequence.
C3_Witness ==
    \E id \in Ids :
        /\ C3_PostRequest(reqs[id])
        /\ IndexOf(reqs[id].State) = N - 1
        /\ reqs[id].calls = 1
        /\ reqs[id].firedAt = N
        /\ InitializationIndex = N

\* ----------------------------------------------------------------- C4
\* The rule, and what one call does in the current state.
C4_Rule(Index, State, bIsPostState) ==
    \/ IsStateAlreadyInitialized(Index, State)
    \/ (IsCurrentState(Index, State) /\ ~bIsPostState)

C4_OfCall(State, Object, FunctionName, bIsPostState) ==
    LET m  == BindToInitializationStep(Machine, State, Object, FunctionName,
                                       bIsPostState, NoCallback)
        id == Len(reqs) + 1
        e  == FGameStateInitializationEvent(State, Object, FunctionName,
                                            bIsPostState, id)
    IN  /\ m.Index = InitializationIndex
        /\ IF C4_Rule(InitializationIndex, State, bIsPostState)
           THEN /\ m.Events = InitializationEvents
                /\ m.reqs[id].attempts = 1
                /\ m.out[1] = [kind |-> "Execute", id |-> id]
                /\ (m.reqs[id].calls = 1) <=>
                       (IsValid(Object) /\ FindFunction(Object, FunctionName))
                /\ (m.reqs[id].calls = 0) <=>
                       ~(IsValid(Object) /\ FindFunction(Object, FunctionName))
           ELSE /\ m.Events = Append(InitializationEvents, e)
                /\ m.reqs[id].attempts = 0
                /\ m.reqs[id].calls = 0
                /\ m.out = <<>>
        /\ (IsStage(State) /\ IndexOf(State) < InitializationIndex) =>
               m.reqs[id].attempts = 1

\* C4: BindToInitializationStep calls Execute on the new event before it
\* returns and stores nothing if and only if IsStateAlreadyInitialized(State)
\* or (IsCurrentState(State) and not bIsPostState) holds when it is called;
\* otherwise it runs nothing and adds exactly the new event at the end of
\* the pending array.  A bind to a stage already passed runs at once,
\* whatever the flag.  (Execute calls the callable when the receiver is
\* valid and exposes it.)
C4_BindDecision ==
    /\ Len(reqs) < MaxBinds =>
           \A State \in BindTags, Object \in Receivers,
              FunctionName \in FunctionNames, bIsPostState \in BOOLEAN :
                C4_OfCall(State, Object, FunctionName, bIsPostState)
    /\ \A id \in Ids :
           LET r == reqs[id]
           IN  /\ r.atBind <=> C4_Rule(r.boundAt, r.State, r.bIsPostState)
               /\ r.stored <=> ~r.atBind
               /\ r.atBind => (r.attempts = 1 /\ r.firedAt = r.boundAt
                               /\ id \notin PendingIds)
               /\ (r.stored /\ r.attempts = 0) => id \in PendingIds

\* A post-state request made after the sequence completed, for a stage of
\* the sequence, that ran at once.
C4_Witness ==
    \E id \in Ids :
        /\ reqs[id].boundAt = N
        /\ N >= 1
        /\ IsStage(reqs[id].State)
        /\ reqs[id].bIsPostState
        /\ reqs[id].atBind
        /\ reqs[id].calls = 1
        /\ Len(out) >= 2
        /\ out[1] = [kind |-> "Execute", id |-> id]

\* ----------------------------------------------------------------- C5
\* C5: the TickComponent call that moves the index to N runs every pending
\* event whose state is the last stage, whatever its flag; so when the index
\* is N every request made for the last stage has been run.
C5_TerminalSweep ==
    /\ (N >= 1 /\ InitializationIndex = N) =>
           \A id \in Ids :
               reqs[id].State = Last(OrderedInitializationSteps) =>
                   /\ reqs[id].attempts = 1
                   /\ (reqs[id].wasValid /\ HasCallable(reqs[id])) =>
                          reqs[id].calls = 1
    /\ (NotificationPos > 0 /\ out[NotificationPos].kind = "FullyInitialized") =>
           \A k \in 1 .. Len(InitializationEvents) :
               LET e == InitializationEvents[k]
               IN  e.State = Last(OrderedInitializationSteps) =>
                     /\ ExecutePos(e.id) > 0
                     /\ ExecutePos(e.id) < NotificationPos
                     /\ reqs[e.id].firedAt = N

\* The state right after the terminal call, with a post-state event for the
\* last stage run by it.
C5_Witness ==
    /\ NotificationPos > 0
    /\ out[NotificationPos].kind = "FullyInitialized"
    /\ \E k \in 1 .. Len(InitializationEvents) :
           LET e == InitializationEvents[k]
           IN  /\ e.State = Last(OrderedInitializationSteps)
               /\ e.bIsPostState
               /\ reqs[e.id].calls = 1
               /\ reqs[e.id].boundAt < N - 1

\* ----------------------------------------------------------------- C6
\* C6: Execute is called at most once on the event of a bind request, and
\* its callable at most once: once if the receiver is valid (and exposes the
\* callable) when Execute is called, not at all otherwise.
C6_AtMostOnce ==
    \A id \in Ids :
        LET r == reqs[id]
        IN  /\ r.attempts \in {0, 1}
            /\ r.calls \in {0, 1}
            /\ (r.calls = 1) <=> (r.attempts = 1 /\ r.wasValid /\ HasCallable(r))
            /\ Cardinality({k \in 1 .. Len(out) :
                               out[k] = [kind |-> "Call", id |-> id]}) <= 1
            /\ Cardinality({k \in 1 .. Len(InitializationEvents) :
                               InitializationEvents[k].id = id}) <= 1

\* Two requests that both ran, the first one not in the last call, with a
\* TickComponent call after it.
C6_Witness ==
    /\ Len(reqs) = 2
    /\ reqs[1].calls = 1
    /\ reqs[1].stored
    /\ reqs[1].bIsPostState
    /\ reqs[2].calls = 1
    /\ InitializationIndex >= reqs[1].firedAt + 1
    /\ InitializationIndex < N

\* ----------------------------------------------------------------- C7
\* index(tag) as section 4.3 of the specification defines it.
C7_SpecIndex(State) == IF IsStage(State) THEN IndexOf(State) ELSE N

\* C7: IsStateAlreadyInitialized(tag) is true iff index(tag) < index of the
\* component, the index of a tag that is not in the sequence being N; so it
\* is false for such a tag at every index, and a bind to such a tag is never
\* run at bind time.
C7_UnknownTagNotInitialized ==
    /\ \A State \in BindTags :
           IsStateAlreadyInitialized(InitializationIndex, State)
               <=> (C7_SpecIndex(State) < InitializationIndex)
    /\ \A id \in Ids : ~IsStage(reqs[id].State) => ~reqs[id].atBind

\* ----------------------------------------------------------------- C8
\* C8: the index starts at 0, stays within 0..N, never decreases; it equals
\* N exactly when no TickComponent call can advance any more and, for a
\* sequence that has stages, exactly when the component has announced the
\* full initialization and stopped ticking.
C8_CursorInvariant ==
    /\ InitializationIndex = 0
    /\ [](/\ InitializationIndex >= 0
          /\ InitializationIndex <= N
          /\ (InitializationIndex = N) <=>
                 (TickComponent(Machine, TRUE, NoCallback) = Machine)
          /\ N >= 1 => ((InitializationIndex = N) <=> ~TickEnabled))
    /\ [][InitializationIndex' >= InitializationIndex]_vars

C8_Witness ==
    /\ N >= 2
    /\ InitializationIndex = N
    /\ ~TickEnabled
    /\ Len(reqs) = MaxBinds

\* ----------------------------------------------------------------- C9
\* The stored events that the advance to the current index has to run.
C9_DueNow(r) ==
    /\ r.stored
    /\ r.boundAt < InitializationIndex
    /\ \/ (~r.bIsPostState /\ IndexOf(r.State) = InitializationIndex)
       \/ (r.bIsPostState /\ IndexOf(r.State) = InitializationIndex - 1)

\* C9: in a TickComponent call that advances, every event due at the new
\* index (pre-state events of the stage entered, post-state events of the
\* stage left) has been run before the call broadcasts its notification,
\* which is the last thing the call does.
C9_FireBeforeNotify ==
    NotificationPos > 0 =>
        /\ NotificationPos = Len(out)
        /\ out[NotificationPos] =
               (IF InitializationIndex < N
                THEN [kind |-> "Changed",
                      tag |-> At(OrderedInitializationSteps, InitializationIndex)]
                ELSE [kind |-> "FullyInitialized"])
        /\ \A id \in Ids :
               C9_DueNow(reqs[id]) =>
                   /\ ExecutePos(id) > 0
                   /\ ExecutePos(id) < NotificationPos

\* Both kinds due in the same advance: a pre-state event of the stage
\* entered and a post-state event of the stage left.
C9_Witness ==
    /\ NotificationPos > 0
    /\ Len(reqs) = 2
    /\ C9_DueNow(reqs[1])
    /\ C9_DueNow(reqs[2])
    /\ reqs[1].bIsPostState # reqs[2].bIsPostState
    /\ reqs[1].calls = 1
    /\ reqs[2].calls = 1

\* ---------------------------------------------------------------- C10
\* C10: when Execute is called on an event whose receiver is not valid, the
\* callable is not called, then or later; Execute is not called on it again;
\* after a non-terminal advance the event is no longer pending; and the index
\* that a TickComponent call reaches does not depend on the receivers.
C10_InvalidDropped ==
    /\ \A id \in Ids :
           LET r == reqs[id]
           IN  (r.attempts >= 1 /\ ~r.wasValid) =>
                   /\ r.calls = 0
                   /\ r.attempts = 1
                   /\ \A k \in 1 .. Len(out) : out[k] # [kind |-> "Call", id |-> id]
                   /\ InitializationIndex < N => id \notin PendingIds
    /\ \A bReady \in BOOLEAN :
           TickComponent(Machine, bReady, NoCallback).Index =
               (IF bReady /\ InitializationIndex < N
                THEN InitializationIndex + 1
                ELSE InitializationIndex)

\* A stored event dropped by a non-terminal advance for its invalid receiver,
\* with a later advance after it.
C10_Witness ==
    \E id \in Ids :
        /\ reqs[id].stored
        /\ reqs[id].attempts = 1
        /\ ~reqs[id].wasValid
        /\ reqs[id].Object # nullptr
        /\ reqs[id].firedAt < N
        /\ InitializationIndex > reqs[id].firedAt
        /\ InitializationIndex < N

\* ---------------------------------------------------------------- C11
\* C11: a TickComponent call made when the index is N, or when the current
\* step is not ready, changes neither the index nor the pending events, runs
\* no event and broadcasts nothing, whatever the pending events and the
\* callables are; so it is after the terminal call, at every later call.
C11_PollNoOp ==
    \A bReady \in BOOLEAN :
        \A cb \in Callbacks(Rebinders(Range(InitializationEvents), 1)) :
            (InitializationIndex = N \/ ~bReady) =>
                LET m == TickComponent(Machine, bReady, cb)
                IN  /\ m.Index = InitializationIndex
                    /\ m.Events = InitializationEvents
                    /\ m.Tick = TickEnabled
                    /\ m.reqs = reqs
                    /\ m.out = <<>>

\* The state that a call made after the terminal one leaves: the sequence is
\* complete, events run by the terminal call are still in the array, and the
\* last call did nothing (a bind at index N runs at once, and no receiver
\* was destroyed).
C11_Witness ==
    /\ N >= 1
    /\ InitializationIndex = N
    /\ ~TickEnabled
    /\ valid = Objects
    /\ out = <<>>
    /\ InitializationEvents # <<>>
    /\ \A id \in PendingIds : reqs[id].attempts = 1

\* ---------------------------------------------------------------- C12
\* No two entries of the array have the same exact class.
UniqueClasses(arr) ==
    \A i, j \in 1 .. Len(arr) : GetClass(arr[i]) = GetClass(arr[j]) => i = j

\* Registering an instance whose exact class has an entry changes no array.
C12_DuplicateRejected ==
    /\ \A Manager \in Actors \ destroyed :
           HasClass(ActorManagers, Manager) =>
               LET L == RegisterActorManager(Locator, Manager)
               IN  /\ L.ActorManagers = ActorManagers
                   /\ L.ComponentManagers = ComponentManagers
    /\ \A Manager \in Components :
           (GetOwner(Manager) \notin destroyed
                /\ HasClass(ComponentManagers, Manager)) =>
               LET L == RegisterComponentManager(Locator, Manager)
               IN  /\ L.ActorManagers = ActorManagers
                   /\ L.ComponentManagers = ComponentManagers

\* C12 as stated: after any calls, each array holds at most one entry of any
\* exact class, and registering an instance whose exact class is present
\* leaves the array as it is (the first registrant stays).
C12_RegistrantUniqueness ==
    /\ UniqueClasses(ActorManagers)
    /\ UniqueClasses(ComponentManagers)
    /\ C12_DuplicateRejected

\* What the code does keep: in a build that is not a shipping build the
\* statement of C12 holds; in a shipping build the test is compiled out and
\* every registration is appended.
C12_UniquenessUnlessShipping ==
    /\ ~UE_BUILD_SHIPPING => C12_RegistrantUniqueness
    /\ UE_BUILD_SHIPPING =>
           \A Manager \in Actors \ destroyed :
               RegisterActorManager(Locator, Manager).ActorManagers =
                   Append(ActorManagers, Manager)

\* A second instance of a registered class was just turned away, and the
\* first is still the only entry.
C12_Witness ==
    /\ ~UE_BUILD_SHIPPING
    /\ locOut.op = "RegisterActorManager"
    /\ locOut.log = "already registered"
    /\ Len(ActorManagers) = 1
    /\ ActorManagers[1] # locOut.arg
    /\ GetClass(ActorManagers[1]) = GetClass(locOut.arg)

\* The same call in a shipping build: the second instance was appended.
C12_ShippingDuplicate ==
    /\ UE_BUILD_SHIPPING
    /\ locOut.op = "RegisterActorManager"
    /\ Len(ActorManagers) = 2
    /\ ActorManagers[1] # ActorManagers[2]
    /\ GetClass(ActorManagers[1]) = GetClass(ActorManagers[2])

\* ---------------------------------------------------------------- C13
\* The entry the rule of the claim names: the earliest entry, of the array
\* of the kind of ManagerClass, whose class is ManagerClass or below it.
C13_Expected(ManagerClass) ==
    LET arr == IF IsChildOf(ManagerClass, "AActor") THEN ActorManagers
               ELSE IF IsChildOf(ManagerClass, "UActorComponent")
               THEN ComponentManagers
               ELSE <<>>
        hits == {i \in 1 .. Len(arr) : IsChildOf(GetClass(arr[i]), ManagerClass)}
    IN  IF hits = {}
        THEN nullptr
        ELSE arr[CHOOSE i \in hits : \A j \in hits : i <= j]

\* With an entry of the base class and one of the derived class in the array,
\* asking for the base gives the earlier of them and asking for the derived
\* class gives the derived one.
C13_BaseAndDerived(arr, Base, Derived) ==
    LET ofBase == {i \in 1 .. Len(arr) : GetClass(arr[i]) = Base}
        ofDerived == {i \in 1 .. Len(arr) : GetClass(arr[i]) = Derived}
    IN  (ofBase # {} /\ ofDerived # {}) =>
            /\ GetManager(Locator, Base) = arr[1]
            /\ GetClass(GetManager(Locator, Derived)) = Derived

\* C13: GetManager(class) looks in the actor array for a class at or below
\* AActor and in the component array for one at or below UActorComponent,
\* and returns the earliest entry whose class is the class asked for or a
\* subclass of it; it returns null exactly when there is none, the class is
\* null, or the class is of neither kind.
C13_ResolveRule ==
    /\ \A ManagerClass \in {nullptr} \cup UClasses :
           GetManager(Locator, ManagerClass) = C13_Expected(ManagerClass)
    /\ GetManager(Locator, nullptr) = nullptr
    /\ GetManager(Locator, "UObject") = nullptr
    /\ C13_BaseAndDerived(ActorManagers, "ManagerA", "ManagerADerived")
    /\ C13_BaseAndDerived(ComponentManagers, "ManagerB", "ManagerBDerived")
    /\ locOut.op = "GetManager" =>
           /\ locOut.ret = C13_Expected(locOut.arg)
           /\ (locOut.log = "not found") =
                  (locOut.arg # nullptr /\ locOut.ret = nullptr)

\* The derived instance was registered before the base instance, and a call
\* for the base class returned the derived instance.
C13_Witness ==
    /\ locOut.op = "GetManager"
    /\ locOut.arg = "ManagerA"
    /\ locOut.ret = "ActorA3"
    /\ \E i \in 2 .. Len(ActorManagers) : GetClass(ActorManagers[i]) = "ManagerA"

\* ---------------------------------------------------------------- C14
\* The destruction signal of a registrant has fired: OnDestroyed of the
\* actor itself, or of the owner of the component, was broadcast.
SignalFired(Manager) ==
    IF Manager \in Actors
    THEN Manager \in destroyed
    ELSE GetOwner(Manager) \in destroyed

\* C14: once the destruction signal of a registrant has fired (its own for an
\* actor, its owner's for a component), no call of GetManager returns that
\* instance, whether or not it was unregistered before.
C14_NoStaleResolve ==
    \A ManagerClass \in UClasses :
        LET ret == GetManager(Locator, ManagerClass)
        IN  ret # nullptr => ~SignalFired(ret)

\* What the code does keep: an actor whose OnDestroyed is broadcast while
\* UnregisterActorManager is bound to it leaves the actor array.
C14_BoundActorPruned ==
    \A Actor \in Actors \ destroyed :
        OnDestroyed[Actor] = "UnregisterActorManager" =>
            \A i \in 1 .. Len(Broadcast(Locator, Actor).ActorManagers) :
                Broadcast(Locator, Actor).ActorManagers[i] # Actor

\* ---------------------------------------------------------------- C15
\* C15: Unregister(instance) removes the instance from its array when it is
\* there and leaves every other entry, and the order of the entries, as they
\* were; for null or an instance that is in no array (one turned away as a
\* duplicate included) it changes neither array; it logs nothing and fails
\* in no case.
C15_UnregisterRule ==
    /\ \A Manager \in {nullptr} \cup (Actors \ destroyed) :
           LET L == UnregisterActorManager(Locator, Manager)
               there == \E i \in 1 .. Len(ActorManagers) : ActorManagers[i] = Manager
           IN  /\ L.ComponentManagers = ComponentManagers
               /\ L.log = ""
               /\ there => L.ActorManagers =
                               SelectSeq(ActorManagers, LAMBDA e : e # Manager)
               /\ ~there => L.ActorManagers = ActorManagers
    /\ \A Manager \in {nullptr} \cup {C \in Components : GetOwner(C) \notin destroyed} :
           LET L == UnregisterComponentManager(Locator, Manager)
               there == \E i \in 1 .. Len(ComponentManagers) :
                            ComponentManagers[i] = Manager
           IN  /\ L.ActorManagers = ActorManagers
               /\ L.log = ""
               /\ there => L.ComponentManagers =
                               SelectSeq(ComponentManagers, LAMBDA e : e # Manager)
               /\ ~there => L.ComponentManagers = ComponentManagers
    /\ locOut.op \in {"UnregisterActorManager", "UnregisterComponentManager"} =>
           /\ locOut.log = ""
           /\ locOut.arg # nullptr =>
                  /\ \A i \in 1 .. Len(ActorManagers) : ActorManagers[i] # locOut.arg
                  /\ \A i \in 1 .. Len(ComponentManagers) :
                         ComponentManagers[i] # locOut.arg

\* An instance that was in the actor array was just removed from it, and the
\* two entries of other instances are still there.
C15_Witness ==
    /\ locOut.op = "UnregisterActorManager"
    /\ locOut.removed = 1
    /\ Len(ActorManagers) = 2
    /\ ActorManagers[1] # ActorManagers[2]

\* ---------------------------------------------------------------- C16
\* The categories that hold Tag in their map Field ("Assets" or "Classes").
CategoriesOf(Field, Tag) ==
    {i \in 1 .. Len(RegisteredAssets) : Tag \in DOMAIN RegisteredAssets[i][Field]}

\* The flattening of the categories: every tag of any category, with the
\* value of the last category that holds it.
Flattened(Field) ==
    [Tag \in {T \in AssetTags : CategoriesOf(Field, T) # {}} |->
        LET last == CHOOSE i \in CategoriesOf(Field, Tag) :
                        \A j \in CategoriesOf(Field, Tag) : j <= i
        IN  RegisteredAssets[last][Field][Tag]]

\* C16: the first Initialize flattens the categories into the two maps; a
\* later Initialize does nothing, and the two maps are as the first call
\* left them.
C16_BuildIdempotent ==
    /\ assetOut.builds = 0 =>
           /\ ~bInitialized
           /\ Assets = EmptyMap
           /\ Classes = EmptyMap
    /\ assetOut.builds >= 1 =>
           /\ bInitialized
           /\ Assets = Flattened("Assets")
           /\ Classes = Flattened("Classes")
    /\ bInitialized => Initialize(Service) = Service

\* Initialize was just called a second time on two categories that gave the
\* maps entries.
C16_Witness ==
    /\ assetOut.builds = 2
    /\ assetOut.last.op = "Initialize"
    /\ Len(RegisteredAssets) = 2
    /\ Assets # EmptyMap
    /\ Classes # EmptyMap

\* ---------------------------------------------------------------- C17
\* The values the categories register for Tag in their map Field.
RegisteredFor(Field, Tag) ==
    {RegisteredAssets[i][Field][Tag] : i \in CategoriesOf(Field, Tag)}

\* The failure of a configuration error: the failed check, fatal where
\* checks are compiled in and passed over in a shipping build; no registered
\* value is returned.
ConfigurationError(r) ==
    /\ r.kind = (IF UE_BUILD_SHIPPING THEN "Unchecked" ELSE "Fatal")
    /\ r.kind = "Fatal" => r.value = nullptr

\* The rule of C17 for one answer r to a lookup of Tag with no expected class.
C17_Rule(Field, Tag, r) ==
    /\ RegisteredFor(Field, Tag) # {} =>
           /\ r.kind = "Returned"
           /\ r.value \in RegisteredFor(Field, Tag)
           /\ r.value = Flattened(Field)[Tag]
    /\ RegisteredFor(Field, Tag) = {} =>
           /\ ConfigurationError(r)
           /\ r.value = nullptr

\* C17: after Initialize, GetAsset or GetAssetClass with no expected class
\* returns, for a tag of any category, the value registered for the tag,
\* the same at every call and whatever the category; for a tag of no
\* category the call fails as a configuration error and returns no
\* registered value.
C17_LookupTotality ==
    /\ bInitialized =>
           \A Tag \in AssetTags :
               /\ C17_Rule("Assets", Tag, GetAsset(Service, Tag, nullptr))
               /\ C17_Rule("Classes", Tag, GetAssetClass(Service, Tag, nullptr))
    /\ (bInitialized /\ assetOut.last.ExpectedClass = nullptr) =>
           /\ assetOut.last.op = "GetAsset" =>
                  C17_Rule("Assets", assetOut.last.Tag, assetOut.last)
           /\ assetOut.last.op = "GetAssetClass" =>
                  C17_Rule("Classes", assetOut.last.Tag, assetOut.last)

\* After Initialize, a tag that only the second category holds was looked
\* up and its object returned.
C17_Witness ==
    /\ bInitialized
    /\ assetOut.last.op = "GetAsset"
    /\ assetOut.last.ExpectedClass = nullptr
    /\ assetOut.last.kind = "Returned"
    /\ CategoriesOf("Assets", assetOut.last.Tag) = {2}
    /\ assetOut.last.value = RegisteredAssets[2].Assets[assetOut.last.Tag]

\* ---------------------------------------------------------------- C18
\* The pairs <<class, expected class>> of the asset classes where the class
\* is the expected class or a subclass of it.
C18_Matches ==
    {<<"AssetBase", "AssetBase">>, <<"AssetDerived", "AssetDerived">>,
     <<"AssetDerived", "AssetBase">>}

\* The rule of C18 for one answer r to a lookup that found Stored, of class
\* Class, with ExpectedClass.
C18_Rule(Stored, Class, ExpectedClass, r) ==
    LET match == ExpectedClass = nullptr \/ <<Class, ExpectedClass>> \in C18_Matches
    IN  /\ (r.kind = "Returned") <=> match
        /\ match => r.value = Stored
        /\ ~match => ConfigurationError(r)

C19_Rule(Tag, r) ==
    /\ Tag \in DOMAIN RegisteredLevels =>
           /\ r.kind = "Returned"
           /\ r.value = RegisteredLevels[Tag]
    /\ Tag \notin DOMAIN RegisteredLevels =>
           /\ r.value = nullptr
           /\ r.kind # "Fatal"
           /\ r.kind = (IF UE_BUILD_SHIPPING THEN "Returned" ELSE "Warned")

\* Every answer GetLevel gives in this state follows the rule, whether
\* Initialize has run or not.
C19_Answers ==
    /\ \A Tag \in AssetTags :
           /\ C19_Rule(Tag, GetLevel(Service, Tag))
           /\ GetLevel(Initialize(Service), Tag) = GetLevel(Service, Tag)
    /\ assetOut.last.op = "GetLevel" => C19_Rule(assetOut.last.Tag, assetOut.last)

C20_CurrentState ==
    /\ \A State \in Tags :
           /\ IsCurrentState(InitializationIndex, State) <=>
                  (/\ InitializationIndex < N
                   /\ OrderedInitializationSteps[InitializationIndex + 1] = State)
           /\ InitializationIndex = N => ~IsCurrentState(InitializationIndex, State)
           /\ ~IsStage(State) => ~IsCurrentState(InitializationIndex, State)
           /\ Cardinality(Range(OrderedInitializationSteps)) = N =>
                  ~(/\ IsCurrentState(InitializationIndex, State)
                    /\ IsStateAlreadyInitialized(InitializationIndex, State))
    /\ \A id \in Ids :
           (reqs[id].atBind /\ ~reqs[id].bIsPostState
                /\ IndexOf(reqs[id].State) >= reqs[id].boundAt) =>
               /\ reqs[id].boundAt < N
               /\ OrderedInitializationSteps[reqs[id].boundAt + 1] = reqs[id].State

\* A bind to the current stage of a sequence without repeated tags that ran
\* at once on the ground of the stage being current, past the first stage.
C20_Witness ==
    /\ Cardinality(Range(OrderedInitializationSteps)) = N
    /\ \E id \in Ids :
           /\ reqs[id].atBind
           /\ reqs[id].boundAt >= 1
           /\ reqs[id].boundAt = InitializationIndex
           /\ IndexOf(reqs[id].State) = reqs[id].boundAt
           /\ reqs[id].calls = 1

\* ---------------------------------------------------------------- C21
\* The handler that prunes the registrant is bound to the OnDestroyed whose
\* broadcast is the registrant's destruction signal.
Observed(Manager) ==
    IF Manager \in Actors
    THEN OnDestroyed[Manager] = "UnregisterActorManager"
    ELSE OnDestroyed[GetOwner(Manager)] = "HandleComponentManagerOwnerDestroyed"

\* C21: in every reachable state each registrant that is in an array, and
\* whose destruction signal has not fired, has the subsystem's handler bound
\* to that signal; unregistering a component (one that was turned away
\* included) leaves the handler that covers another registered component
\* of the same owner.
C21_ObservationCovers ==
    /\ \A i \in 1 .. Len(ActorManagers) :
           ~SignalFired(ActorManagers[i]) => Observed(ActorManagers[i])
    /\ \A i \in 1 .. Len(ComponentManagers) :
           ~SignalFired(ComponentManagers[i]) => Observed(ComponentManagers[i])

\* The case the claim names, alone: two components of one owner are
\* registered, one is unregistered, the other is still observed.
C21_SharedOwnerKept ==
    \A Manager \in Components :
        \A i \in 1 .. Len(ComponentManagers) :
            LET Other == ComponentManagers[i]
                L == UnregisterComponentManager(Locator, Manager)
            IN  (/\ Other # Manager
                 /\ GetOwner(Other) = GetOwner(Manager)
                 /\ GetOwner(Manager) \notin destroyed
                 /\ Observed(Other)) =>
                    L.OnDestroyed[GetOwner(Other)] =
                        "HandleComponentManagerOwnerDestroyed"

\* ---------------------------------------------------------------- C22
\* The pending events that the claim says an advance onto index c runs.
C22_Due(c) ==
    {k \in 1 .. Len(InitializationEvents) :
        LET e == InitializationEvents[k]
        IN  \/ (e.State = OrderedInitializationSteps[c + 1] /\ ~e.bIsPostState)
            \/ (e.bIsPostState /\ IndexOf(e.State) < c)}

\* The ids of the requests on which m.out says that Execute was called.
C22_Executed(m) ==
    {m.out[k].id : k \in {j \in 1 .. Len(m.out) : m.out[j].kind = "Execute"}}

\* C22: a TickComponent call that moves the index onto c < N runs and
\* removes exactly the pending events with (State = steps[c] and not
\* post-state) or (post-state and index(State) < c); every other pending
\* event stays in the array, unchanged and in the same order, before any
\* event that a callable of the call adds, and the call broadcasts the
\* change once, with steps[c].
C22_ExactFiringSet ==
    InitializationIndex + 1 < N =>
        \A cb \in Callbacks(Rebinders(Range(InitializationEvents), 1)) :
            LET c == InitializationIndex + 1
                m == TickComponent(Machine, TRUE, cb)
                due == {InitializationEvents[k].id : k \in C22_Due(c)}
                rest == SelectSeq(InitializationEvents, LAMBDA e : e.id \notin due)
            IN  /\ m.Index = c
                /\ C22_Executed(m) \cap PendingIds = due
                /\ \A id \in due : m.reqs[id].attempts = reqs[id].attempts + 1
                /\ SubSeq(m.Events, 1, Len(rest)) = rest
                /\ \A k \in (Len(rest) + 1) .. Len(m.Events) :
                       m.Events[k].id \notin Ids
                /\ Len(SelectSeq(m.out, IsNotification)) = 1
                /\ m.out[Len(m.out)] =
                       [kind |-> "Changed", tag |-> OrderedInitializationSteps[c + 1]]

\* A call just moved the index onto a step that is not the last, ran one
\* pending event and left the other pending.
C22_Witness ==
    /\ InitializationIndex \in 1 .. (N - 1)
    /\ Len(out) >= 2
    /\ out[Len(out)] = [kind |-> "Changed",
                        tag |-> OrderedInitializationSteps[InitializationIndex + 1]]
    /\ \E id \in Ids :
           /\ ExecutePos(id) > 0
           /\ reqs[id].stored
           /\ id \notin PendingIds
    /\ \E id \in PendingIds : reqs[id].boundAt < InitializationIndex

\* ---------------------------------------------------------------- C23
\* C23: an event that a TickComponent call has run is not in
\* InitializationEvents when the call returns, on a non-terminal advance and
\* on the terminal one; so once the index is N the array holds no event that
\* was run.
C23_ExecutedDiscarded ==
    \A id \in PendingIds : reqs[id].attempts = 0

\* What the code does keep: while the index is below N no event that was
\* run is in the array.
C23_DiscardedBeforeTerminal ==
    InitializationIndex < N => C23_ExecutedDiscarded

\* The terminal call ran an event of the last step and the event is still
\* in the array.
C23_SweptStillPending ==
    /\ InitializationIndex = N
    /\ \E id \in PendingIds :
           /\ reqs[id].attempts = 1
           /\ reqs[id].firedAt = N
           /\ ExecutePos(id) > 0

\* ---------------------------------------------------------------- C24
\* C24: in a sequence without repeated tags, while the index is below N,
\* every event of InitializationEvents is for a step whose index is at or
\* after the current index, and an event for the step at the index is a
\* post-state one: no event of a step that is done, and no pre-state event
\* of the current step, is left waiting.
C24_PendingInvariant ==
    (Cardinality(Range(OrderedInitializationSteps)) = N /\ InitializationIndex < N) =>
        \A k \in 1 .. Len(InitializationEvents) :
            LET e == InitializationEvents[k]
            IN  /\ IndexOf(e.State) >= InitializationIndex
                /\ IndexOf(e.State) = InitializationIndex => e.bIsPostState

\* The same without the condition on the sequence.
C24_WithRepeatedTags ==
    InitializationIndex < N =>
        \A k \in 1 .. Len(InitializationEvents) :
            LET e == InitializationEvents[k]
            IN  /\ IndexOf(e.State) >= InitializationIndex
                /\ IndexOf(e.State) = InitializationIndex => e.bIsPostState

\* After an advance, a post-state event of the step that is now current and
\* an event of a later step, both bound before the advance, are waiting.
C24_Witness ==
    /\ Cardinality(Range(OrderedInitializationSteps)) = N
    /\ InitializationIndex \in 1 .. (N - 1)
    /\ \E id \in PendingIds :
           /\ IndexOf(reqs[id].State) = InitializationIndex
           /\ reqs[id].bIsPostState
           /\ reqs[id].boundAt < InitializationIndex
    /\ \E id \in PendingIds :
           /\ IndexOf(reqs[id].State) > InitializationIndex
           /\ reqs[id].boundAt < InitializationIndex

\* ---------------------------------------------------------------- C25
\* The broadcasts the claim allows when the index is c: the change to
\* steps[1], ..., steps[c] (to steps[N-1] at most), in that order, and after
\* them the full initialization iff c = N.
C25_Expected(c) ==
    [k \in 1 .. (IF c = N THEN N - 1 ELSE c) |->
        [kind |-> "Changed", tag |-> OrderedInitializationSteps[k + 1]]]
    \o (IF c = N THEN <<[kind |-> "FullyInitialized"]>> ELSE <<>>)

\* C25: with N >= 1 steps, the broadcasts of a run are the change to
\* steps[1], ..., steps[N-1], in that order, each once at most and each made
\* by the call that moves the index onto that step, never for steps[0]; the
\* full initialization is broadcast once, by the call that moves the index
\* from N-1 to N, after every change, and nothing is broadcast after it.
C25_NotificationSequence ==
    N >= 1 =>
        /\ notified = C25_Expected(InitializationIndex)
        /\ LET now == SelectSeq(out, IsNotification)
           IN  /\ Len(now) <= 1
               /\ now # <<>> =>
                      /\ InitializationIndex >= 1
                      /\ now[1] = notified[Len(notified)]
                      /\ now[1].kind = "FullyInitialized" <=> InitializationIndex = N
                      /\ now[1].kind = "Changed" =>
                             now[1].tag =
                                 OrderedInitializationSteps[InitializationIndex + 1]

\* A sequence of three steps is complete: two changes and the full
\* initialization were broadcast, and the call after that broadcast nothing.
C25_Witness ==
    /\ N = 3
    /\ InitializationIndex = N
    /\ Len(notified) = 3
    /\ notified[3] = [kind |-> "FullyInitialized"]
    /\ valid = Objects
    /\ out = <<>>

\* ---------------------------------------------------------------- C26
\* The sequence is complete and its completion was broadcast.
C26_Complete ==
    /\ InitializationIndex = N
    /\ notified # <<>>
    /\ notified[Len(notified)] = [kind |-> "FullyInitialized"]

\* Execute was called on the event of request id: its callable was run, or
\* the event was dropped for its receiver.
C26_Consumed(id) == id \in Ids /\ reqs[id].attempts >= 1

\* While the sequence is not complete a ready frame can be taken: the call
\* with a ready step and a callable that binds nothing moves the index up
\* by one, so the fairness of SpecFair asks for a step that exists.
C26_ReadyTickPossible ==
    InitializationIndex < N =>
        LET m == TickComponent(Machine, TRUE, NoCallback)
        IN  /\ m.Index = InitializationIndex + 1
            /\ Len(m.reqs) <= MaxBinds

\* C26: for a sequence of N >= 1 steps without repeated tags, if
\* TickComponent keeps being called and each current step is ready in the
\* end, the index reaches N, the full initialization is broadcast, and
\* every event that was stored is run or dropped for its receiver: none
\* waits for ever.
C26_EventualCompletion ==
    (Cardinality(Range(OrderedInitializationSteps)) = N /\ N >= 1) =>
        /\ <>C26_Complete
        /\ \A id \in 1 .. MaxBinds :
               (id \in Ids /\ reqs[id].stored) ~> C26_Consumed(id)

\* A sequence of three different steps is complete, and an event stored at
\* the start for its last step was run by the terminal call.
C26_Witness ==
    /\ Cardinality(Range(OrderedInitializationSteps)) = N
    /\ N = 3
    /\ C26_Complete
    /\ \E id \in Ids :
           /\ reqs[id].stored
           /\ reqs[id].boundAt = 0
           /\ reqs[id].State = OrderedInitializationSteps[N]
           /\ reqs[id].firedAt = N
           /\ reqs[id].calls = 1

\* ---------------------------------------------------------------- C27
\* The case of the claim in the array arr: A is an entry, B is another
\* living instance of the same exact class and is not an entry.
C27_Case(arr, A, B) ==
    /\ A \in Range(arr)
    /\ B \notin Range(arr)
    /\ B # A
    /\ GetClass(B) = GetClass(A)

\* What the claim says of B registered and then A unregistered: the first
\* call changes nothing, after the second B is not an entry and GetManager
\* of the class returns null.
C27_Dropped(arr1, arr2, L2, B) ==
    /\ arr1 = arr2
    /\ B \notin Range(arr2)
    /\ GetManager(L2, GetClass(B)) = nullptr

\* C27: when B is registered while A of the same exact class is in the
\* array, the registration is dropped, and once A is unregistered B is not
\* in the array: GetManager of the class returns null although B is alive.
C27_RejectedNeverRegistered ==
    /\ \A A, B \in Actors \ destroyed :
           C27_Case(ActorManagers, A, B) =>
               LET L1 == RegisterActorManager(Locator, B)
                   L2 == UnregisterActorManager(L1, A)
               IN  C27_Dropped(ActorManagers, L1.ActorManagers, L2, B)
    /\ \A A, B \in {C \in Components : GetOwner(C) \notin destroyed} :
           C27_Case(ComponentManagers, A, B) =>
               LET L1 == RegisterComponentManager(Locator, B)
                   L2 == UnregisterComponentManager(L1, A)
               IN  C27_Dropped(ComponentManagers, L1.ComponentManagers, L2, B)

\* What the code keeps: in a build that is not a shipping build B is
\* dropped and is not an entry after A went, so GetManager does not return
\* it, and returns null when no entry of a class below is left; in a
\* shipping build B is appended and is what is left once A went.
C27_DroppedUnlessShipping ==
    \A A, B \in Actors \ destroyed :
        C27_Case(ActorManagers, A, B) =>
            LET L1 == RegisterActorManager(Locator, B)
                L2 == UnregisterActorManager(L1, A)
                ret == GetManager(L2, GetClass(B))
            IN  /\ ~UE_BUILD_SHIPPING =>
                       /\ L1.ActorManagers = ActorManagers
                       /\ L1.log = "already registered"
                       /\ B \notin Range(L2.ActorManagers)
                       /\ ret # B
                       /\ (\A i \in 1 .. Len(L2.ActorManagers) :
                               ~IsChildOf(GetClass(L2.ActorManagers[i]), GetClass(B)))
                              => ret = nullptr
                /\ UE_BUILD_SHIPPING =>
                       /\ L1.ActorManagers = Append(ActorManagers, B)
                       /\ B \in Range(L2.ActorManagers)
                       /\ ret # nullptr

\* In a shipping build A was just unregistered and B, of the same exact
\* class and registered while A was an entry, is the entry of the class.
C27_ShippingStillPresent ==
    /\ UE_BUILD_SHIPPING
    /\ locOut.op = "UnregisterActorManager"
    /\ locOut.arg # nullptr
    /\ locOut.removed = 1
    /\ Len(ActorManagers) = 1
    /\ ActorManagers[1] # locOut.arg
    /\ GetClass(ActorManagers[1]) = GetClass(locOut.arg)
    /\ GetManager(Locator, GetClass(locOut.arg)) = ActorManagers[1]

\* In a build that is not a shipping build A was just unregistered and no
\* entry is left: GetManager of the class of A finds nothing.
C27_Witness ==
    /\ ~UE_BUILD_SHIPPING
    /\ locOut.op = "UnregisterActorManager"
    /\ locOut.arg # nullptr
    /\ locOut.removed = 1
    /\ ActorManagers = <<>>
    /\ GetManager(Locator, GetClass(locOut.arg)) = nullptr

\* ---------------------------------------------------------------- C28
\* The entries of a call's log that are about the requests made before it.
C28_AboutOld(log) ==
    SelectSeq(log, LAMBDA o : IsNotification(o) \/ o.id \in Ids)

C28_TerminalWitness ==
    /\ NotificationPos # 0
    /\ InitializationIndex = N
    /\ \E id \in Ids, by \in Ids :
           /\ by < id
           /\ reqs[by].stored
           /\ reqs[by].firedAt = N
           /\ reqs[by].calls = 1
           /\ reqs[id].boundAt = N
           /\ reqs[id].atBind
           /\ reqs[id].attempts = 1

\* ---------------------------------------------------------------- C29
\* C29: with no step in the sequence the index is 0 = N from the start,
\* every TickComponent call returns at once and changes nothing, whatever
\* IsStepReadyToAdvance answers, and neither the change of step nor the full
\* initialization is ever broadcast.
C29_EmptySequence ==
    N = 0 =>
        /\ InitializationIndex = 0
        /\ notified = <<>>
        /\ SelectSeq(out, IsNotification) = <<>>
        /\ TickEnabled
        /\ \A bReady \in BOOLEAN :
               \A cb \in Callbacks(Rebinders(Range(InitializationEvents),
                                             MaxBinds - Len(reqs))) :
                   TickComponent(Machine, bReady, cb) = Machine

\* The sequence is empty, callers have bound (each callable ran at its
\* bind, no tag being found in the sequence) and a call with a ready step
\* changes and broadcasts nothing.
C29_Witness ==
    /\ N = 0
    /\ InitializationIndex = 0
    /\ Len(reqs) = MaxBinds
    /\ \A id \in Ids : reqs[id].atBind
    /\ notified = <<>>
    /\ TickComponent(Machine, TRUE, NoCallback) = Machine

====
